---- MODULE Spec2Model ----
(***************************************************************************)
(* A model of the Reshuffle executor node                                  *)
(* (src/backend/executor/nodeReshuffle.c): one operator instance on one    *)
(* segment, driven by a consumer that calls ExecReshuffle, and pulling     *)
(* tagged rows from its outer node (a SplitUpdate) with ExecProcNode.      *)
(*                                                                         *)
(* A row (the contents of a TupleTableSlot) is a record                    *)
(*   isnull  TupIsNull(slot)                                               *)
(*   id      serial number of the pull that produced it (history only)     *)
(*   action  values[actionColIdx - 1]                                      *)
(*   seg     values[tupleSegIdx - 1], the destination column               *)
(*   vals    the data columns values[0..], indexed by attribute number     *)
(*   nulls   the data columns' null flags                                  *)
(***************************************************************************)
EXTENDS Integers, Sequences, FiniteSets, TLC

VARIABLES
    reshuffle,      \* the Reshuffle plan node: ptype, policyAttrs, oldSegs
    segindex,       \* GpIdentity.segindex
    numsegments,    \* getgpsegmentCount()
    assertChecking, \* the build defines USE_ASSERT_CHECKING
    destList,       \* ReshuffleState.destList
    newTargetIdx,   \* ReshuffleState.newTargetIdx
    savedSlot,      \* ReshuffleState.savedSlot: "NULL" or "outer" (the outer node's slot)
    node_cdbhash,   \* ReshuffleState.cdbhash
    node_oldcdbhash, \* ReshuffleState.oldcdbhash
    childSlot,      \* contents of the outer node's result slot
    childEOF,       \* the outer node has reported exhaustion
    chgParam,       \* outer node's chgParam is not NULL (it rescans at its next ExecProcNode)
    pc,             \* "ready" | "loop" | "error" | "abort" | "ended"
    ret,            \* what the last completed ExecReshuffle call returned
    lastOp,         \* the handler that ran last
    procCalled,     \* history: ExecProcNode(outerNode) was called at least once
    nPulled,        \* history: rows pulled from the outer node so far
    nInsPulled,     \* history: Insert rows pulled so far
    callPulls,      \* history: rows pulled during the current / last call
    entryIdx,       \* history: newTargetIdx at the entry of the current / last call
    inRow,          \* history: the last row pulled, as the outer node returned it
    emitted,        \* history: ids of the rows returned, in order
    skipped,        \* history: rows the Replicated loop passed over, as <<id, action>>
    nRescans        \* history: number of ExecReScanReshuffle calls

cfgVars == <<reshuffle, segindex, numsegments, assertChecking, destList, node_cdbhash, node_oldcdbhash>>
nodeVars == <<newTargetIdx, savedSlot>>
childVars == <<childSlot, childEOF, chgParam>>
histVars == <<procCalled, nPulled, nInsPulled, callPulls, entryIdx, inRow, emitted, skipped>>
vars == <<cfgVars, nodeVars, childVars, pc, ret, lastOp, histVars, nRescans>>

\* ---------------------------------------------------------------- bounds
MaxSegs == 4
MaxPulls == 2
MaxRescans == 1
MaxSetupSegs == 7

\* No run returns more rows than this: a pulled row is returned at most once
\* per entry of the destination list, which has fewer than MaxSegs entries.
MaxEmit == MaxPulls * MaxSegs

\* ---------------------------------------------------------------- constants
INIT_IDX == 0

POLICYTYPE_PARTITIONED == "PARTITIONED"
POLICYTYPE_REPLICATED == "REPLICATED"
POLICYTYPE_ENTRY == "ENTRY"
DML_INSERT == "INSERT"
DML_DELETE == "DELETE"

\* The data columns of the table; a policy's key attributes are among them.
DataCols == 1..2
DatumVals == 0..1
AttrLists == {<<1>>, <<1, 2>>, <<2, 1>>}

\* An empty slot (ExecProcNode's end-of-stream, or ExecReshuffle's NULL).
EmptySlot ==
    [isnull |-> TRUE, id |-> 0, action |-> DML_DELETE, seg |-> 0,
     vals |-> <<0, 0>>, nulls |-> <<FALSE, FALSE>>]

TupIsNull(slot) == slot.isnull

\* A NULL datum is stored as 0 with its null flag set.
DataTuples ==
    {t \in [vals : [DataCols -> DatumVals], nulls : [DataCols -> BOOLEAN]] :
        \A c \in DataCols : t.nulls[c] => t.vals[c] = 0}

\* The destination column of a row the outer node returns: the segment the
\* row is on, or a segment id that is out of range.
InSegs == {segindex, numsegments}

\* The rows the outer node can return as its id-th row: any action, any data.
Rows(id) ==
    {[isnull |-> FALSE, id |-> id, action |-> a, seg |-> s, vals |-> t.vals, nulls |-> t.nulls] :
        a \in {DML_INSERT, DML_DELETE}, s \in InSegs, t \in DataTuples}

\* The values random() can return: 0 .. 2^31 - 1.
RandomVals == (0..(MaxSegs - 1)) \cup {2147483647}

\* ---------------------------------------------------------------- hash primitive
\* The consistent-hash primitive (cdb/cdbhash.h) is a black box here: a context
\* bound to a segment count, reset, folded over (position, value, null flag)
\* and reduced to a segment id in [0, numsegs).
makeCdbHash(numsegs) == [numsegs |-> numsegs, hash |-> 0]

cdbhashinit(h) == [h EXCEPT !.hash = 1]

cdbhash(h, i, datum, isnull) ==
    [h EXCEPT !.hash = (h.hash * 3) + (i * (IF isnull THEN 0 ELSE datum + 1))]

cdbhashreduce(h) == h.hash % h.numsegs

\* ---------------------------------------------------------------- EvalHashSegID
\* foreach(lc, policyAttrs) { cdbhash(h, i + 1, values[attidx-1], nulls[attidx-1]); i++; }
RECURSIVE HashKeys(_, _, _, _, _)
HashKeys(h, values, nulls, attrs, i) ==
    IF attrs = <<>>
    THEN h
    ELSE HashKeys(cdbhash(h, i + 1, values[Head(attrs)], nulls[Head(attrs)]),
                  values, nulls, Tail(attrs), i + 1)

\* The same loop passing i instead of i + 1.
RECURSIVE HashKeysFromZero(_, _, _, _, _)
HashKeysFromZero(h, values, nulls, attrs, i) ==
    IF attrs = <<>>
    THEN h
    ELSE HashKeysFromZero(cdbhash(h, i, values[Head(attrs)], nulls[Head(attrs)]),
                          values, nulls, Tail(attrs), i + 1)

EvalHashSegIDFromZero(values, nulls, policyAttrs, h) ==
    cdbhashreduce(HashKeysFromZero(cdbhashinit(h), values, nulls, policyAttrs, 0))

EvalHashSegID(values, nulls, policyAttrs, h) ==
    cdbhashreduce(HashKeys(cdbhashinit(h), values, nulls, policyAttrs, 0))

\* ---------------------------------------------------------------- ExecInitReshuffle
\* The loop running while segIdx <= getgpsegmentCount().
RECURSIVE AppendDestsInclusive(_, _, _, _)
AppendDestsInclusive(list, segIdx, oldSegs, nsegs) ==
    IF segIdx <= nsegs
    THEN AppendDestsInclusive(Append(list, segIdx), segIdx + oldSegs, oldSegs, nsegs)
    ELSE list

\* while (segIdx < getgpsegmentCount()) { lappend_int(destList, segIdx); segIdx += oldSegs; }
RECURSIVE AppendDests(_, _, _, _)
AppendDests(list, segIdx, oldSegs, nsegs) ==
    IF segIdx < nsegs
    THEN AppendDests(Append(list, segIdx), segIdx + oldSegs, oldSegs, nsegs)
    ELSE list

\* The setup without the test segindex < oldSegs.
BuildDestListUnguarded(seg, oldSegs, nsegs) ==
    IF seg + oldSegs < nsegs
    THEN AppendDests(<<>>, seg + oldSegs, oldSegs, nsegs)
    ELSE <<>>

\* Setup the destination segment ID list (on a segment: IS_QUERY_DISPATCHER() is false).
BuildDestList(seg, oldSegs, nsegs) ==
    IF seg < oldSegs /\ seg + oldSegs < nsegs
    THEN AppendDests(<<>>, seg + oldSegs, oldSegs, nsegs)
    ELSE <<>>

\* The hash context of the routing, bound to the old segment count.
NewHashBoundToOld(node, nsegs) == makeCdbHash(node.oldSegs)

\* reshufflestate->cdbhash = makeCdbHash(getgpsegmentCount(), ...)
NewHash(node, nsegs) == makeCdbHash(nsegs)

\* reshufflestate->oldcdbhash: set in assertion-checked builds only; makeNode
\* leaves it NULL (a context bound to nothing) otherwise.
OldHash(node, build) == IF build THEN makeCdbHash(node.oldSegs) ELSE makeCdbHash(0)

\* The Reshuffle plan nodes: Hash has key attributes, Random is PARTITIONED
\* with none, Replicated has none.
Plans(topologies) ==
    {n \in [ptype : {POLICYTYPE_PARTITIONED, POLICYTYPE_REPLICATED, POLICYTYPE_ENTRY},
            policyAttrs : AttrLists \cup {<<>>},
            oldSegs : {t[1] : t \in topologies}] :
        n.ptype # POLICYTYPE_PARTITIONED => n.policyAttrs = <<>>}

IsHash == reshuffle.ptype = POLICYTYPE_PARTITIONED /\ reshuffle.policyAttrs # <<>>
IsRandom == reshuffle.ptype = POLICYTYPE_PARTITIONED /\ reshuffle.policyAttrs = <<>>
IsReplicated == reshuffle.ptype = POLICYTYPE_REPLICATED

\* The state ExecInitReshuffle leaves, for a plan node, a topology and a build.
InitWith(topologies) ==
    /\ reshuffle \in Plans(topologies)
    /\ numsegments \in {t[2] : t \in topologies}
    /\ segindex \in 0..(numsegments - 1)
    /\ <<reshuffle.oldSegs, numsegments>> \in topologies
    /\ assertChecking \in BOOLEAN
    /\ destList = BuildDestList(segindex, reshuffle.oldSegs, numsegments)
    /\ node_cdbhash = NewHash(reshuffle, numsegments)
    /\ node_oldcdbhash = OldHash(reshuffle, assertChecking)
    /\ newTargetIdx = INIT_IDX
    /\ savedSlot = "NULL"
    /\ childSlot = EmptySlot
    /\ childEOF = FALSE
    /\ chgParam = FALSE
    /\ pc = "ready"
    /\ ret = EmptySlot
    /\ lastOp = "ExecInitReshuffle"
    /\ procCalled = FALSE
    /\ nPulled = 0
    /\ nInsPulled = 0
    /\ callPulls = 0
    /\ entryIdx = INIT_IDX
    /\ inRow = EmptySlot
    /\ emitted = <<>>
    /\ skipped = {}
    /\ nRescans = 0

\* The cluster has grown: <<O, N>> with N > O >= 1 and N <= maxsegs.
GrownTopologies(maxsegs) == {t \in (1..maxsegs) \X (1..maxsegs) : t[1] < t[2]}

Init == InitWith(GrownTopologies(MaxSegs))

\* ---------------------------------------------------------------- ExecProcNode(outerNode)
\* What the outer node can return now: end-of-stream, or (while it is not
\* exhausted, or is about to rescan itself because its chgParam is set) its
\* next row.
ChildReturns ==
    {EmptySlot} \cup
    (IF (chgParam \/ ~childEOF) /\ nPulled < MaxPulls THEN Rows(nPulled + 1) ELSE {})

\* slot = ExecProcNode(outerNode), as the base-th + 1 pull of this call.
Pull(resp, base) ==
    /\ childEOF' = TupIsNull(resp)
    /\ chgParam' = FALSE
    /\ procCalled' = TRUE
    /\ nPulled' = IF TupIsNull(resp) THEN nPulled ELSE nPulled + 1
    /\ nInsPulled' =
          IF ~TupIsNull(resp) /\ resp.action = DML_INSERT THEN nInsPulled + 1 ELSE nInsPulled
    /\ callPulls' = IF TupIsNull(resp) THEN base ELSE base + 1
    /\ inRow' = IF TupIsNull(resp) THEN inRow ELSE resp

\* An iteration or a call that does not call ExecProcNode.
NoPull(base) ==
    /\ callPulls' = base
    /\ UNCHANGED <<childEOF, chgParam, procCalled, nPulled, nInsPulled, inRow>>

\* ---------------------------------------------------------------- ExecReshuffle
\* if (GpIdentity.segindex > reshuffle->oldSegs) return NULL;
GateClosedStrict(seg, oldSegs) == seg > oldSegs

\* New added segments have no data
GateClosed(seg, oldSegs) == seg >= oldSegs

\* if (GpIdentity.segindex + reshuffle->oldSegs > getgpsegmentCount()) return NULL;
ReplicatedIdleStrict(seg, oldSegs, nsegs) == seg + oldSegs > nsegs

\* For replicated tables: this segment copies to no new segment
ReplicatedIdle(seg, oldSegs, nsegs) == seg + oldSegs >= nsegs

\* C's a % b for a >= 0 and b # 0: the sign of the result is the dividend's.
CRem(a, b) == IF b > 0 THEN a % b ELSE a % (0 - b)

\* random() % newSegs, without the offset
RandomSegIDNoOffset(oldSegs, newSegs, r) == CRem(r, newSegs)

\* oldSegs + random() % (newSegs - oldSegs)
RandomSegID(oldSegs, newSegs, r) == oldSegs + CRem(r, newSegs - oldSegs)

\* The Replicated loop skipping the inserting tuples instead.
SkipTupleInverted(action) == action = DML_INSERT

\* The Replicated loop skipping nothing.
SkipTupleNever(action) == FALSE

\* Reshuffling replicate table does not need to delete tuple
SkipTuple(action) == action = DML_DELETE

\* The Replicated loop pulling a row in every iteration.
NeedPullAlways(idx) == TRUE

\* if (node->newTargetIdx == INIT_IDX) pull a row, else use node->savedSlot
NeedPull(idx) == idx = INIT_IDX

\* node->newTargetIdx++ without the wrap
NextTargetIdxNoWrap(idx, len) == idx + 1

\* The cursor put back to INIT_IDX after every returned row.
NextTargetIdxFirstOnly(idx, len) == INIT_IDX

\* The wrap tested with > in place of >=.
NextTargetIdxWrapLate(idx, len) == IF idx + 1 > len THEN INIT_IDX ELSE idx + 1

\* node->newTargetIdx++; if (node->newTargetIdx >= list_length(destList)) newTargetIdx = INIT_IDX;
NextTargetIdx(idx, len) == IF idx + 1 >= len THEN INIT_IDX ELSE idx + 1

\* The outcome of a call or iteration: where control goes, the outer slot's
\* contents, whether the slot is returned, and the node's fields.
Outcome(p, slot, out, idx, saved, skip) ==
    [pc |-> p, slot |-> slot, out |-> out, idx |-> idx, saved |-> saved, skip |-> skip]

\* The hash written one column off, into the first data column.
HashInsertWrongColumn(slot) ==
    Outcome("ready",
            [slot EXCEPT !.vals[1] = EvalHashSegID(slot.vals, slot.nulls,
                                                   reshuffle.policyAttrs, node_cdbhash)],
            TRUE, newTargetIdx, savedSlot, {})

\* The PARTITIONED branch for a row with the Insert action and key attributes.
HashInsert(slot) ==
    Outcome("ready",
            [slot EXCEPT !.seg = EvalHashSegID(slot.vals, slot.nulls,
                                               reshuffle.policyAttrs, node_cdbhash)],
            TRUE, newTargetIdx, savedSlot, {})

\* The PARTITIONED branch for a row with the Insert action and no key
\* attributes. Assert(newSegs > oldSegs) aborts a checked build; a division
\* by zero ends the process.
RandomInsert(slot, r) ==
    IF assertChecking /\ ~(numsegments > reshuffle.oldSegs)
    THEN Outcome("abort", slot, FALSE, newTargetIdx, savedSlot, {})
    ELSE IF numsegments = reshuffle.oldSegs
    THEN Outcome("abort", slot, FALSE, newTargetIdx, savedSlot, {})
    ELSE Outcome("ready",
                 [slot EXCEPT !.seg = RandomSegID(reshuffle.oldSegs, numsegments, r)],
                 TRUE, newTargetIdx, savedSlot, {})

\* A deleting tuple stamped with the hash of its key attributes over the old
\* segment count (a Random row, which has none, with segment 0).
PartitionedDeleteRerouted(slot) ==
    Outcome("ready",
            [slot EXCEPT !.seg = EvalHashSegID(slot.vals, slot.nulls, reshuffle.policyAttrs,
                                               makeCdbHash(reshuffle.oldSegs))],
            TRUE, newTargetIdx, savedSlot, {})

\* The PARTITIONED branch for a row with the Delete action: nothing is
\* written; a checked build asserts that the O-bound hash of a Hash row is the
\* segment it arrived with.
PartitionedDelete(slot) ==
    IF /\ assertChecking
       /\ reshuffle.policyAttrs # <<>>
       /\ slot.seg # EvalHashSegID(slot.vals, slot.nulls, reshuffle.policyAttrs, node_oldcdbhash)
    THEN Outcome("abort", slot, FALSE, newTargetIdx, savedSlot, {})
    ELSE Outcome("ready", slot, TRUE, newTargetIdx, savedSlot, {})

\* The check letting the segment count itself through (> in place of >=).
SegmentCheckOffByOne(o) ==
    IF assertChecking /\ o.pc = "ready" /\ o.out /\ o.slot.seg > numsegments
    THEN [o EXCEPT !.pc = "error", !.out = FALSE]
    ELSE o

\* The check of a checked build: elog(ERROR, "ERROR SEGMENT ID") when the
\* destination column is >= getgpsegmentCount().
SegmentCheck(o) ==
    IF assertChecking /\ o.pc = "ready" /\ o.out /\ o.slot.seg >= numsegments
    THEN [o EXCEPT !.pc = "error", !.out = FALSE]
    ELSE o

\* The body of the Replicated loop after the slot is chosen; action is what
\* the read of the action column gives. A write into an empty slot is not
\* visible, and returning an empty slot is returning end-of-stream.
ReplicatedTuple(slot, action, saved) ==
    IF SkipTuple(action)
    THEN Outcome("loop", slot, FALSE, newTargetIdx, saved,
                 IF TupIsNull(slot) THEN {} ELSE {<<slot.id, action>>})
    ELSE IF newTargetIdx >= Len(destList)
    THEN Outcome("abort", slot, FALSE, newTargetIdx, saved, {})
    ELSE Outcome("ready",
                 IF TupIsNull(slot) THEN slot ELSE [slot EXCEPT !.seg = destList[newTargetIdx + 1]],
                 ~TupIsNull(slot),
                 NextTargetIdx(newTargetIdx, Len(destList)),
                 saved, {})

\* The end of a call or iteration with outcome o.
Deliver(o) ==
    /\ pc' = o.pc
    /\ childSlot' = o.slot
    /\ ret' = IF o.pc = "ready" /\ o.out THEN o.slot
              ELSE IF o.pc = "loop" THEN ret ELSE EmptySlot
    /\ emitted' = IF o.pc = "ready" /\ o.out THEN Append(emitted, o.slot.id) ELSE emitted
    /\ newTargetIdx' = o.idx
    /\ savedSlot' = o.saved
    /\ skipped' = skipped \cup o.skip

\* return NULL before anything is pulled
ReturnNull ==
    /\ NoPull(0)
    /\ Deliver(Outcome("ready", childSlot, FALSE, newTargetIdx, savedSlot, {}))

\* if (reshuffle->ptype == POLICYTYPE_PARTITIONED) { ... }
PartitionedCall ==
    \E resp \in ChildReturns :
        /\ Pull(resp, 0)
        /\ IF TupIsNull(resp)
           THEN Deliver(Outcome("ready", resp, FALSE, newTargetIdx, savedSlot, {}))
           ELSE IF resp.action = DML_INSERT
           THEN IF reshuffle.policyAttrs # <<>>
                THEN Deliver(SegmentCheck(HashInsert(resp)))
                ELSE \E r \in RandomVals : Deliver(SegmentCheck(RandomInsert(resp, r)))
           ELSE Deliver(SegmentCheck(PartitionedDelete(resp)))

\* One iteration of while(1) { ... } of the Replicated branch, in a call that
\* has pulled base rows so far.
ReplicatedIteration(base) ==
    IF NeedPull(newTargetIdx)
    THEN \E resp \in ChildReturns :
            /\ Pull(resp, base)
            /\ IF TupIsNull(resp)
               THEN Deliver(Outcome("ready", resp, FALSE, newTargetIdx, savedSlot, {}))
               ELSE Deliver(ReplicatedTuple(resp, resp.action, "outer"))
    ELSE /\ NoPull(base)
         /\ IF savedSlot = "NULL"
            THEN Deliver(Outcome("abort", childSlot, FALSE, newTargetIdx, savedSlot, {}))
            ELSE IF ~TupIsNull(childSlot)
            THEN Deliver(ReplicatedTuple(childSlot, childSlot.action, savedSlot))
            ELSE IF assertChecking
            THEN Deliver(Outcome("abort", childSlot, FALSE, newTargetIdx, savedSlot, {}))
            ELSE \E action \in {DML_INSERT, DML_DELETE} :
                    Deliver(ReplicatedTuple(childSlot, action, savedSlot))

\* Impossible case: Assert(false), and slot is still NULL
ImpossibleCall ==
    /\ NoPull(0)
    /\ Deliver(Outcome(IF assertChecking THEN "abort" ELSE "ready",
                       childSlot, FALSE, newTargetIdx, savedSlot, {}))

\* A call of ExecReshuffle, up to its return or to the first continue of the
\* Replicated loop.
ExecReshuffle ==
    /\ pc = "ready"
    /\ Len(emitted) < MaxEmit
    /\ lastOp' = "ExecReshuffle"
    /\ entryIdx' = newTargetIdx
    /\ UNCHANGED <<cfgVars, nRescans>>
    /\ IF GateClosed(segindex, reshuffle.oldSegs)
       THEN ReturnNull
       ELSE IF reshuffle.ptype = POLICYTYPE_PARTITIONED
       THEN PartitionedCall
       ELSE IF reshuffle.ptype = POLICYTYPE_REPLICATED
       THEN IF ReplicatedIdle(segindex, reshuffle.oldSegs, numsegments)
            THEN ReturnNull
            ELSE ReplicatedIteration(0)
       ELSE ImpossibleCall

\* The next iteration of the Replicated loop after a continue.
ReplicatedLoop ==
    /\ pc = "loop"
    /\ UNCHANGED <<cfgVars, nRescans, lastOp, entryIdx>>
    /\ ReplicatedIteration(callPulls)

\* ---------------------------------------------------------------- ExecReScanReshuffle
\* if (lefttree && lefttree->chgParam == NULL) ExecReScan(lefttree); the
\* node's own fields are not touched. ExecReScan restarts the outer node and
\* may or may not clear its result slot; with chgParam set the outer node
\* restarts at its next ExecProcNode.
ExecReScanReshuffle ==
    /\ pc = "ready"
    /\ nRescans < MaxRescans
    /\ nRescans' = nRescans + 1
    /\ lastOp' = "ExecReScanReshuffle"
    /\ \E changed \in (IF chgParam THEN {TRUE} ELSE BOOLEAN) :
          IF changed
          THEN /\ chgParam' = TRUE
               /\ UNCHANGED <<childSlot, childEOF>>
          ELSE /\ chgParam' = FALSE
               /\ childEOF' = FALSE
               /\ childSlot' \in {childSlot, EmptySlot}
    /\ UNCHANGED <<cfgVars, nodeVars, pc, ret, histVars>>

\* ---------------------------------------------------------------- ExecEndReshuffle
ExecEndReshuffle ==
    /\ pc = "ready"
    /\ pc' = "ended"
    /\ lastOp' = "ExecEndReshuffle"
    /\ UNCHANGED <<cfgVars, nodeVars, childVars, ret, histVars, nRescans>>

Next ==
    \/ ExecReshuffle
    \/ ReplicatedLoop
    \/ ExecReScanReshuffle
    \/ ExecEndReshuffle

Spec == Init /\ [][Next]_vars

\* The setup alone, over more topologies (the header comment's 3 old and 4
\* new segments among them): ExecInitReshuffle, then ExecEndReshuffle.
InitSetup == InitWith(GrownTopologies(MaxSetupSegs))

NextSetup == ExecEndReshuffle

SpecSetup == InitSetup /\ [][NextSetup]_vars

\* One scan: the consumer calls ExecReshuffle and ends the node, and never
\* restarts it.
NextScan ==
    \/ ExecReshuffle
    \/ ReplicatedLoop
    \/ ExecEndReshuffle

SpecScan == Init /\ [][NextScan]_vars

\* One scan by a consumer that keeps calling ExecReshuffle: a call that is
\* possible is eventually made, and a loop iteration that is possible is
\* eventually run (the executor is single-threaded and pull-based).
NextDrain ==
    \/ ExecReshuffle
    \/ ReplicatedLoop

SpecDrain ==
    /\ Init
    /\ [][NextDrain]_vars
    /\ WF_vars(ExecReshuffle)
    /\ WF_vars(ReplicatedLoop)

\* Any <<O, N>> up to maxsegs, the cluster grown or not: ExecInitReshuffle
\* accepts them all.
AnyTopologies(maxsegs) == (1..maxsegs) \X (1..maxsegs)

InitAny == InitWith(AnyTopologies(MaxSegs))

SpecAny == InitAny /\ [][Next]_vars

\* ================================================================ claims
Range(seq) == {seq[i] : i \in DOMAIN seq}

Count(seq, x) == Cardinality({i \in DOMAIN seq : seq[i] = x})

Returned == lastOp = "ExecReshuffle" /\ pc = "ready"

\* C1. Eligibility gate: on a segment with segindex >= oldSegs, under every
\* policy and whatever the outer node would return, every ExecReshuffle call
\* returns end-of-stream, no row is emitted and ExecProcNode is never called
\* on the outer node.
EligibilityGate ==
    segindex >= reshuffle.oldSegs =>
        /\ ~procCalled
        /\ nPulled = 0
        /\ emitted = <<>>
        /\ TupIsNull(ret)
        /\ pc \in {"ready", "ended"}

EligibilityGateWitness ==
    /\ segindex >= reshuffle.oldSegs
    /\ IsHash
    /\ Returned
    /\ TupIsNull(ret)

\* The key values of a row in policy order, as <<value, null flag>> pairs.
KeyValues(row, attrs) ==
    [j \in 1..Len(attrs) |-> <<row.vals[attrs[j]], row.nulls[attrs[j]]>>]

RECURSIVE FoldKeyValues(_, _, _)
FoldKeyValues(h, kv, j) ==
    IF j > Len(kv) THEN h ELSE FoldKeyValues(cdbhash(h, j, kv[j][1], kv[j][2]), kv, j + 1)

\* hash(key values, n): a context bound to n, reset, folded over the key
\* values with positions 1, 2, ..., reduced.
HashOf(kv, n) == cdbhashreduce(FoldKeyValues(cdbhashinit(makeCdbHash(n)), kv, 1))

\* C2. Hash routing of Inserts: under Hash policy on a segment with
\* segindex < oldSegs, a pulled Insert row is returned with its destination
\* column equal to hash(key values, N), the key values being the row's key
\* columns in policy order, folded with positions starting at 1, in a context
\* bound to the new segment count.
HashRoutingOfInserts ==
    (/\ IsHash
     /\ segindex < reshuffle.oldSegs
     /\ Returned
     /\ callPulls = 1
     /\ inRow.action = DML_INSERT) =>
        /\ ~TupIsNull(ret)
        /\ ret.id = inRow.id
        /\ ret.action = DML_INSERT
        /\ ret.seg = HashOf(KeyValues(inRow, reshuffle.policyAttrs), numsegments)

HashRoutingOfInsertsWitness ==
    /\ IsHash
    /\ reshuffle.policyAttrs = <<2, 1>>
    /\ Returned
    /\ ~TupIsNull(ret)
    /\ ret.action = DML_INSERT
    /\ inRow.vals[1] # inRow.vals[2]
    /\ ret.seg # inRow.seg
    /\ ret.seg >= reshuffle.oldSegs

\* C3. Random routing bound: under Random policy with N > O, every returned
\* Insert row has a destination d with O <= d < N, whatever random() returned.
RandomRoutingBound ==
    (/\ IsRandom
     /\ numsegments > reshuffle.oldSegs
     /\ ~TupIsNull(ret)
     /\ ret.action = DML_INSERT) =>
        /\ reshuffle.oldSegs <= ret.seg
        /\ ret.seg < numsegments

RandomRoutingBoundWitness ==
    /\ IsRandom
    /\ numsegments - reshuffle.oldSegs >= 2
    /\ Returned
    /\ ~TupIsNull(ret)
    /\ ret.action = DML_INSERT
    /\ ret.seg = numsegments - 1

\* C4. Replicated delete suppression: under Replicated policy no returned row
\* is tagged Delete, and a Delete row pulled from the outer node is passed
\* over by the loop and never emitted.
ReplicatedDeleteSuppression ==
    IsReplicated =>
        /\ ~TupIsNull(ret) => ret.action = DML_INSERT
        /\ (pc \in {"ready", "loop", "ended"} /\ ~TupIsNull(inRow) /\ inRow.action = DML_DELETE) =>
              /\ inRow.id \notin Range(emitted)
              /\ <<inRow.id, DML_DELETE>> \in skipped

ReplicatedDeleteSuppressionWitness ==
    /\ IsReplicated
    /\ Returned
    /\ callPulls = 2
    /\ skipped # {}
    /\ ~TupIsNull(ret)
    /\ ret.id = 2

\* C5, as stated. Replicated round-robin over input rows: the i-th Insert row
\* pulled (counting from 0) is returned with DestinationList[i mod |D|].
RoundRobinOverInputRows ==
    (IsReplicated /\ Returned /\ ~TupIsNull(ret)) =>
        ret.seg = destList[((nInsPulled - 1) % Len(destList)) + 1]

\* C5, amended. Replicated round-robin over output rows: every returned row is
\* stamped with DestinationList[cursor] for the cursor before the call, and
\* the cursor then advances by one, wrapping to 0 after the last entry; until
\* the first restart the k-th output (counting from 0) therefore carries
\* DestinationList[k mod |D|], whichever input rows the outputs are.
RoundRobinOverOutputRows ==
    /\ [][(IsReplicated /\ Len(emitted') = Len(emitted) + 1) =>
            /\ ret'.seg = destList[newTargetIdx + 1]
            /\ newTargetIdx' = (newTargetIdx + 1) % Len(destList)]_vars
    /\ [](( IsReplicated /\ nRescans = 0 /\ Returned /\ ~TupIsNull(ret)) =>
            ret.seg = destList[((Len(emitted) - 1) % Len(destList)) + 1])

RoundRobinOverOutputRowsWitness ==
    /\ IsReplicated
    /\ nRescans = 0
    /\ Returned
    /\ Len(destList) = 2
    /\ Len(emitted) = 3
    /\ emitted = <<1, 1, 2>>
    /\ ret.seg = destList[1]

\* C6, as stated. One input per output: every returned row is a row newly
\* pulled during that call (the only row pulled under Hash and Random, the
\* last one after the discarded Deletes under Replicated) and has not been
\* returned before.
OneInputPerOutput ==
    (Returned /\ ~TupIsNull(ret)) =>
        /\ callPulls >= 1
        /\ ret.id = nPulled
        /\ ~IsReplicated => callPulls = 1
        /\ Count(emitted, ret.id) = 1

\* C6, amended. A call entered with the cursor at 0 (every call under Hash and
\* Random, every call under Replicated when |D| = 1) returns a row newly
\* pulled during that call and not returned before; under Replicated a call
\* entered with a non-zero cursor pulls nothing and returns the buffered row
\* again, the row the previous output was; no row is returned more than |D|
\* times.
OneInputPerOutputAmended ==
    (Returned /\ ~TupIsNull(ret)) =>
        /\ entryIdx = INIT_IDX =>
              /\ callPulls >= 1
              /\ ret.id = nPulled
              /\ ~IsReplicated => callPulls = 1
              /\ Count(emitted, ret.id) = 1
        /\ entryIdx # INIT_IDX =>
              /\ IsReplicated
              /\ Len(destList) >= 2
              /\ callPulls = 0
              /\ Len(emitted) >= 2
              /\ emitted[Len(emitted) - 1] = ret.id
        /\ Count(emitted, ret.id) <= (IF IsReplicated THEN Len(destList) ELSE 1)

OneInputPerOutputAmendedWitness ==
    /\ IsReplicated
    /\ Returned
    /\ ~TupIsNull(ret)
    /\ entryIdx # INIT_IDX
    /\ callPulls = 0
    /\ Count(emitted, ret.id) = 3

\* The values segindex + k * oldSegs (k >= 1) below nsegs, ascending.
MultiplesBelow(seg, oldSegs, nsegs) ==
    LET ks == {k \in 1..nsegs : seg + (k * oldSegs) < nsegs}
    IN [k \in 1..Cardinality(ks) |-> seg + (k * oldSegs)]

\* C7, as stated. DestinationList construction: after ExecInitReshuffle on
\* segment s the list is the ascending sequence of all s + k*O (k >= 1) that
\* are < N, and it is non-empty if and only if s < O and s + O < N.
DestListConstruction ==
    /\ destList = MultiplesBelow(segindex, reshuffle.oldSegs, numsegments)
    /\ destList # <<>> <=>
          (segindex < reshuffle.oldSegs /\ segindex + reshuffle.oldSegs < numsegments)

\* C7, amended. On an old segment (s < O) the list is the ascending sequence
\* of all s + k*O (k >= 1) that are < N; on a new segment (s >= O) it is
\* empty, also when some s + k*O is < N; it is non-empty if and only if s < O
\* and s + O < N.
DestListConstructionAmended ==
    /\ segindex < reshuffle.oldSegs =>
          destList = MultiplesBelow(segindex, reshuffle.oldSegs, numsegments)
    /\ segindex >= reshuffle.oldSegs => destList = <<>>
    /\ destList # <<>> <=>
          (segindex < reshuffle.oldSegs /\ segindex + reshuffle.oldSegs < numsegments)

DestListConstructionAmendedWitness ==
    /\ lastOp = "ExecEndReshuffle"
    /\ reshuffle.oldSegs = 3
    /\ numsegments = 7
    /\ segindex = 0
    /\ destList = <<3, 6>>

\* C8. Empty DestinationList edge case: under Replicated policy an instance
\* whose DestinationList is empty returns end-of-stream from the first call
\* on, emits nothing, never calls ExecProcNode and never reaches the list
\* lookup.
EmptyDestListEdge ==
    (IsReplicated /\ destList = <<>>) =>
        /\ ~procCalled
        /\ emitted = <<>>
        /\ TupIsNull(ret)
        /\ newTargetIdx = INIT_IDX
        /\ pc \in {"ready", "ended"}

EmptyDestListEdgeWitness ==
    /\ IsReplicated
    /\ destList = <<>>
    /\ segindex < reshuffle.oldSegs
    /\ segindex + reshuffle.oldSegs >= numsegments
    /\ Returned
    /\ TupIsNull(ret)

\* A row is buffered for further destinations: savedSlot is read only while
\* the cursor is not 0.
LookaheadPending == newTargetIdx # INIT_IDX /\ savedSlot # "NULL"

\* C9, as stated. Restart semantics: ExecReScanReshuffle resets the cursor to
\* 0, leaves no lookahead row buffered and leaves the DestinationList
\* unchanged, so that under Replicated policy the first output after a
\* restart is a row pulled after the restart, stamped with DestinationList[0].
RestartResets ==
    [][/\ nRescans' = nRescans + 1 =>
            /\ newTargetIdx' = INIT_IDX
            /\ ~LookaheadPending'
            /\ destList' = destList
       /\ (IsReplicated /\ lastOp = "ExecReScanReshuffle" /\ Len(emitted') = Len(emitted) + 1) =>
            /\ callPulls' >= 1
            /\ ret'.id = nPulled'
            /\ ret'.seg = destList[1]]_vars

\* C10. Ordering guarantee: rows are returned in the order they were pulled
\* (all returns of a row pulled earlier precede all returns of a row pulled
\* later), only pulled rows are returned, and between calls the only pulled
\* rows that were never returned are Delete rows passed over under Replicated
\* policy.
OrderingGuarantee ==
    /\ \A i \in 1..(Len(emitted) - 1) : emitted[i] <= emitted[i + 1]
    /\ Range(emitted) \subseteq 1..nPulled
    /\ pc \in {"ready", "ended"} =>
          \A id \in 1..nPulled :
              \/ id \in Range(emitted)
              \/ IsReplicated /\ <<id, DML_DELETE>> \in skipped

OrderingGuaranteeWitness ==
    /\ IsReplicated
    /\ Returned
    /\ emitted = <<1, 1, 2, 2>>

\* C11. Configuration faults are detected at setup: when oldSegs >= the
\* segment count, ExecInitReshuffle fails, so no row is ever pulled from the
\* outer node and none is ever returned. (The claim's other fault, a Hash plan
\* with an empty key list, is not a state of the program: a PARTITIONED plan
\* with policyAttrs == NIL is the Random plan.)
ConfigurationFaultsDetected ==
    reshuffle.oldSegs >= numsegments =>
        /\ ~procCalled
        /\ nPulled = 0
        /\ emitted = <<>>

\* C12. Consistency faults are hard errors in every build, production builds
\* included: a row that leaves the PARTITIONED branch is returned only with a
\* destination in 0 .. N-1, and a Hash row with the Delete action only when
\* the hash of its key values over oldSegs is the destination it arrived with.
ConsistencyFaultsAreErrors ==
    (/\ Returned
     /\ reshuffle.ptype = POLICYTYPE_PARTITIONED
     /\ ~TupIsNull(ret))
    => /\ ret.seg \in 0..(numsegments - 1)
       /\ (IsHash /\ ret.action = DML_DELETE) =>
              ret.seg = HashOf(KeyValues(ret, reshuffle.policyAttrs), reshuffle.oldSegs)

\* The hash over oldSegs of a row's key values.
OldSegmentOf(row) == HashOf(KeyValues(row, reshuffle.policyAttrs), reshuffle.oldSegs)

\* C12, amended. The consistency checks exist in checked builds only. In a
\* checked build a row leaves the PARTITIONED branch only with a destination
\* below N, and a Hash row with the Delete action only when the hash of its
\* key values over oldSegs is the destination it arrived with; the call ends
\* with elog(ERROR) exactly for a row whose destination is >= N and with a
\* failed assertion exactly for a Hash Delete row whose hash differs. In a
\* production build no call ends with an error and every pulled row is
\* returned, whatever its destination.
ConsistencyChecksInCheckedBuilds ==
    (reshuffle.ptype = POLICYTYPE_PARTITIONED /\ lastOp = "ExecReshuffle")
    => /\ (assertChecking /\ pc = "ready" /\ ~TupIsNull(ret)) =>
              /\ ret.seg < numsegments
              /\ (IsHash /\ ret.action = DML_DELETE) => ret.seg = OldSegmentOf(ret)
       /\ pc = "error" =>
              /\ assertChecking
              /\ childSlot.seg >= numsegments
       /\ pc = "abort" =>
              /\ assertChecking
              /\ IsHash
              /\ childSlot.action = DML_DELETE
              /\ childSlot.seg # OldSegmentOf(childSlot)
       /\ ~assertChecking =>
              /\ pc = "ready"
              /\ callPulls = 1 => ret = childSlot /\ ret.id = inRow.id

ConsistencyChecksInCheckedBuildsWitness ==
    /\ assertChecking
    /\ IsRandom
    /\ lastOp = "ExecReshuffle"
    /\ pc = "error"
    /\ childSlot.id = 2
    /\ childSlot.seg = numsegments
    /\ emitted = <<1>>

\* The call that has just ended pulled a row with the Delete action.
DeletePulled ==
    /\ lastOp = "ExecReshuffle"
    /\ pc # "loop"
    /\ callPulls = 1
    /\ inRow.action = DML_DELETE

\* C13. Deletes are not re-routed under the PARTITIONED policies: the call
\* that pulls a row with the Delete action returns that row, every column
\* including the destination as it arrived, and the row is returned once. A
\* production build returns every such row; a checked build ends with its
\* consistency error instead of returning a row that fails the check.
DeletesNotRerouted ==
    (reshuffle.ptype = POLICYTYPE_PARTITIONED /\ DeletePulled)
    => /\ pc = "ready" =>
              /\ ret = inRow
              /\ Count(emitted, inRow.id) = 1
       /\ ~assertChecking => pc = "ready"

DeletesNotReroutedWitness ==
    /\ IsHash
    /\ DeletePulled
    /\ pc = "ready"
    /\ ret = inRow
    /\ ret.seg = numsegments
    /\ ret.seg # HashOf(KeyValues(ret, reshuffle.policyAttrs), reshuffle.oldSegs)

\* C14. Sole side effect: a returned row is the row last pulled from the
\* outer node with the same action and the same data columns (values and
\* null flags); ExecReshuffle has written at most its destination column.
SoleSideEffect ==
    (Returned /\ ~TupIsNull(ret))
    => /\ ret.id = inRow.id
       /\ ret.isnull = inRow.isnull
       /\ ret.action = inRow.action
       /\ ret.vals = inRow.vals
       /\ ret.nulls = inRow.nulls

SoleSideEffectWitness ==
    /\ Returned
    /\ ~TupIsNull(ret)
    /\ ret.action = DML_INSERT
    /\ ret.seg # inRow.seg
    /\ ret.vals = inRow.vals
    /\ ret.vals[1] # ret.seg

\* The last ExecReshuffle call returned end-of-stream.
EndOfStreamReported == Returned /\ TupIsNull(ret)

\* The scan is over: end-of-stream has been returned, or (in a checked build
\* only) a check has failed.
ScanOver == EndOfStreamReported \/ (assertChecking /\ pc \in {"error", "abort"})

\* C15. Termination: the outer node returns finitely many rows and then
\* end-of-stream, and the consumer keeps calling. Then the scan is eventually
\* over for good: ExecReshuffle returns end-of-stream after finitely many
\* calls and loop iterations, and every later call returns it again without
\* entering the Delete-skipping loop (in a checked build the scan may end
\* with a failed check instead). Under Replicated, end-of-stream is never
\* returned while the cursor is part-way through the destinations of a
\* buffered row.
Termination ==
    /\ <>[]ScanOver
    /\ [](IsReplicated /\ EndOfStreamReported => newTargetIdx = INIT_IDX)

TerminationWitness ==
    /\ IsReplicated
    /\ EndOfStreamReported
    /\ Len(destList) = 2
    /\ emitted = <<1, 1>>
    /\ skipped = {<<2, DML_DELETE>>}
    /\ childEOF

\* C17. Replicated full copy: on an old segment with a non-empty destList,
\* in a scan without restart, every pulled Insert row is returned once per
\* entry of destList, consecutively and in list order, before the next row is
\* pulled. At every point of the scan: a row returned earlier than the row
\* in progress has been returned Len(destList) times; the row in progress has
\* been returned newTargetIdx times and is the last row pulled; the k-th
\* return of a row carries destList[k]; and a call that pulls an Insert row
\* returns it.
ReplicatedFullCopy ==
    (IsReplicated /\ destList # <<>>)
    => /\ \A id \in Range(emitted) :
              Count(emitted, id) =
                  IF newTargetIdx # INIT_IDX /\ id = emitted[Len(emitted)]
                  THEN newTargetIdx
                  ELSE Len(destList)
       /\ \A i, j \in 1..Len(emitted) : i <= j => emitted[i] <= emitted[j]
       /\ newTargetIdx # INIT_IDX => emitted[Len(emitted)] = nPulled
       /\ (Returned /\ ~TupIsNull(ret)) =>
              /\ ret.id = emitted[Len(emitted)]
              /\ ret.seg = destList[Count(emitted, ret.id)]
       /\ (pc = "ready" /\ nPulled > 0 /\ inRow.action = DML_INSERT) =>
              inRow.id \in Range(emitted)

ReplicatedFullCopyWitness ==
    /\ IsReplicated
    /\ destList = <<1, 2, 3>>
    /\ emitted = <<1, 1, 1, 2>>
    /\ Returned
    /\ ret.id = 2
    /\ ret.seg = 1
    /\ skipped = {}

\* The DestinationList ExecInitReshuffle builds on segment s of this cluster.
DestListOf(s) ==
    IF s = segindex THEN destList ELSE BuildDestList(s, reshuffle.oldSegs, numsegments)

\* C18. Partition of the new segments: for O >= 1 and N > O the
\* DestinationLists of the old segments 0 .. O-1 have no repeated entry, are
\* pairwise disjoint, and together hold exactly the new segments O .. N-1.
PartitionOfNewSegments ==
    LET old == 0..(reshuffle.oldSegs - 1)
    IN (reshuffle.oldSegs >= 1 /\ numsegments > reshuffle.oldSegs)
       => /\ \A s \in old : Cardinality(Range(DestListOf(s))) = Len(DestListOf(s))
          /\ \A s1, s2 \in old :
                 s1 # s2 => Range(DestListOf(s1)) \cap Range(DestListOf(s2)) = {}
          /\ UNION {Range(DestListOf(s)) : s \in old} =
                 reshuffle.oldSegs..(numsegments - 1)

PartitionOfNewSegmentsWitness ==
    /\ reshuffle.oldSegs = 3
    /\ numsegments = 7
    /\ segindex = 1
    /\ destList = <<4>>
    /\ DestListOf(0) = <<3, 6>>
    /\ DestListOf(2) = <<5>>

\* C19. Cursor and lookahead: after ExecInitReshuffle and any sequence of
\* ExecReshuffle calls under Replicated with a non-empty destList, the cursor
\* is within 0 .. Len(destList) - 1 (0 after setup and inside the
\* Delete-skipping loop); whenever it is not 0 the saved slot is set and
\* holds a row with the Insert action; and no call has ended in a list lookup
\* out of range or a missing saved slot.
CursorLookaheadInvariant ==
    (IsReplicated /\ destList # <<>>)
    => /\ newTargetIdx \in 0..(Len(destList) - 1)
       /\ lastOp = "ExecInitReshuffle" => newTargetIdx = INIT_IDX
       /\ pc = "loop" => newTargetIdx = INIT_IDX
       /\ newTargetIdx # INIT_IDX =>
              /\ savedSlot = "outer"
              /\ ~TupIsNull(childSlot)
              /\ childSlot.action = DML_INSERT
       /\ pc \notin {"abort", "error"}

CursorLookaheadInvariantWitness ==
    /\ IsReplicated
    /\ Len(destList) = 3
    /\ Returned
    /\ newTargetIdx = 2
    /\ savedSlot = "outer"
    /\ childSlot.action = DML_INSERT
    /\ emitted = <<2, 2>>

====
